---- MODULE Spec2Model ----
(***************************************************************************)
(* MedChat client: the API client layer (authAPI, chatAPI, pacsAPI), the   *)
(* Session Store (localStorage) and the Session Context (AuthProvider).    *)
(* The repository holds several revisions of the same modules; each is     *)
(* modelled and selected by a variant name:                                *)
(*   api "executor" = src/src/lib/api.ts  (requestApi, timeout, text body) *)
(*   api "status"   = src/unnamed/part_001 (response.ok / 401 / 422)       *)
(*   api "legacy"   = src/unnamed/part_002 (response.json() only)          *)
(*   ctx "basic"    = src/src/contexts/AuthContext.tsx                     *)
(*   ctx "rollback" = src/unnamed/part_000                                 *)
(***************************************************************************)
EXTENDS Integers, Sequences, FiniteSets, TLC

\* ------------------------------------------------------------------------
\* JavaScript values.  Every scalar is a string; absent and null are marked.
\* ------------------------------------------------------------------------
UNDEF == "<undefined>"
NULLV == "<null>"

\* JavaScript truthiness of a string-or-absent value (!!v).
Truthy(v) == v # UNDEF /\ v # NULLV /\ v # ""

\* a || b on string-or-absent values.
Or(a, b) == IF Truthy(a) THEN a ELSE b

\* error.details / detail : absent, null, a string, or an array of {msg}.
NoDetails == [t |-> "undef", s |-> UNDEF, msgs |-> <<>>]
NullDetails == [t |-> "null", s |-> UNDEF, msgs |-> <<>>]
StrDetails(s) == [t |-> "str", s |-> s, msgs |-> <<>>]
ArrDetails(msgs) == [t |-> "arr", s |-> UNDEF, msgs |-> msgs]

\* The data member of an envelope: absent, null, a string, an object or an
\* array.  json is its JSON text; the named members are those the client reads.
DUndef ==
  [t |-> "undef", json |-> UNDEF, s |-> UNDEF, access_token |-> UNDEF,
   token |-> UNDEF, user |-> UNDEF, id |-> UNDEF, username |-> UNDEF,
   response |-> UNDEF, llm |-> UNDEF, messages |-> UNDEF]
DNull == [DUndef EXCEPT !.t = "null", !.json = "null"]
DStr(s) == [DUndef EXCEPT !.t = "str", !.json = "\"" \o s \o "\"", !.s = s]
DObj(json) == [DUndef EXCEPT !.t = "obj", !.json = json]
DArr(json) == [DUndef EXCEPT !.t = "arr", !.json = json]

\* !!data
DataTruthy(d) == d.t \in {"obj", "arr"} \/ (d.t = "str" /\ d.s # "")

\* A parsed body: JSON null or an object with the envelope's members.
PNull ==
  [t |-> "null", status |-> UNDEF, message |-> UNDEF, data |-> DUndef,
   code |-> UNDEF, details |-> NoDetails, detail |-> NoDetails]
PObj == [PNull EXCEPT !.t = "obj"]

\* ------------------------------------------------------------------------
\* Response bodies the backend (or a proxy in front of it) can send, as text.
\* ------------------------------------------------------------------------
UserAnnJson == "{\"id\":\"1\",\"username\":\"ann\"}"
UserBobJson == "{\"id\":\"2\",\"username\":\"bob\"}"
ConfigsJson == "[{\"id\":\"p1\",\"display_name\":\"Main\",\"base_rs\":\"http://pacs/rs\",\"tags\":[]}]"
ConfigJson == "{\"id\":\"p1\",\"display_name\":\"Main\",\"base_rs\":\"http://pacs/rs\",\"tags\":[]}"

BodyEmpty == ""
BodyHtml == "<html>Bad Gateway</html>"
BodyBlank == " "
BodyJsonNull == "null"
BodyTokA == "{\"status\":\"success\",\"data\":{\"access_token\":\"tokA\",\"token_type\":\"bearer\"}}"
BodyTokB == "{\"status\":\"success\",\"data\":{\"token\":\"tokB\"}}"
BodyTokBob == "{\"status\":\"success\",\"data\":{\"access_token\":\"tokB\"}}"
BodyTokBoth == "{\"status\":\"success\",\"data\":{\"access_token\":\"tokA\",\"token\":\"tokB\"}}"
BodyTokStr == "{\"status\":\"success\",\"data\":\"tokC\"}"
BodyTokEmpty == "{\"status\":\"success\",\"data\":{\"access_token\":\"\"}}"
BodyUserTok == "{\"status\":\"success\",\"data\":{\"user\":" \o UserAnnJson \o ",\"access_token\":\"tokA\"}}"
BodyUserAnn == "{\"status\":\"success\",\"data\":" \o UserAnnJson \o "}"
BodyUserBob == "{\"status\":\"success\",\"data\":" \o UserBobJson \o "}"
BodyReply == "{\"status\":\"success\",\"data\":{\"response\":\"hi\"}}"
BodyLlm == "{\"status\":\"success\",\"data\":{\"llm\":\"hi\"}}"
BodyChats == "{\"status\":\"success\",\"data\":{\"messages\":[]}}"
HistoryJson == "[{\"id\":\"h1\",\"role\":\"assistant\",\"content\":\"old\",\"timestamp\":1}]"
BodyChatsOld == "{\"status\":\"success\",\"data\":{\"messages\":" \o HistoryJson \o "}}"
BodyConfigs == "{\"status\":\"success\",\"data\":" \o ConfigsJson \o "}"
BodyConfig == "{\"status\":\"success\",\"data\":" \o ConfigJson \o "}"
BodyOkNoData == "{\"status\":\"success\",\"message\":\"done\"}"
BodyOkNullData == "{\"status\":\"success\",\"data\":null}"
BodyErrMsg == "{\"status\":\"error\",\"message\":\"Invalid credentials\"}"
BodyErrBare == "{\"status\":\"error\"}"
BodyErrDetails == "{\"status\":\"error\",\"message\":\"Bad\",\"error\":{\"code\":\"E\",\"details\":[{\"msg\":\"field required\"},{\"msg\":\"too short\"}]}}"
BodyErrDetailsNoMsg == "{\"status\":\"error\",\"message\":\"Bad\",\"error\":{\"code\":\"E\",\"details\":[{\"loc\":\"x\"}]}}"
BodyErrDetailsStr == "{\"status\":\"error\",\"error\":{\"code\":\"E\",\"details\":\"boom\"}}"
BodyValidation == "{\"detail\":[{\"msg\":\"field required\"},{\"msg\":\"too short\"}]}"
BodyValidationOne == "{\"detail\":[{\"msg\":\"field required\"}]}"
BodyValidationGap == "{\"detail\":[{\"msg\":\"field required\"},{\"msg\":\"\"},{\"msg\":\"too short\"}]}"
BodyValidationNone == "{\"detail\":[]}"
BodyValidationMsg == "{\"message\":\"Unprocessable\",\"detail\":[{\"msg\":\"field required\"}]}"
BodyDetailStr == "{\"detail\":\"Not authenticated\"}"

JsonBodies ==
  {BodyJsonNull, BodyTokA, BodyTokB, BodyTokBob, BodyTokBoth, BodyTokStr, BodyTokEmpty,
   BodyUserTok, BodyUserAnn, BodyUserBob, BodyReply, BodyLlm, BodyChats,
   BodyChatsOld,
   BodyConfigs, BodyConfig, BodyOkNoData, BodyOkNullData, BodyErrMsg,
   BodyErrBare, BodyErrDetails, BodyErrDetailsNoMsg, BodyErrDetailsStr,
   BodyValidation, BodyValidationOne, BodyValidationGap, BodyValidationNone,
   BodyValidationMsg, BodyDetailStr}
NonJsonBodies == {BodyHtml, BodyBlank}
Bodies == {BodyEmpty} \cup NonJsonBodies \cup JsonBodies

Success(data) == [PObj EXCEPT !.status = "success", !.data = data]
Failure(message) == [PObj EXCEPT !.status = "error", !.message = message]

\* ------------------------------------------------------------------------
\* PACS configuration records on the wire.  The backend assigns the ids
\* p1, p2, ...; a list is the JSON array of its records.
\* ------------------------------------------------------------------------
\* How many times the user submits the form or deletes a record, and so how
\* many records the backend gets to create.
MaxPacsActions == 2

Digits == <<"1", "2", "3", "4", "5", "6", "7", "8", "9">>
IdOf(n) == "p" \o Digits[n]
ConfigText(id) ==
  "{\"id\":\"" \o id \o "\",\"display_name\":\"Main\",\"base_rs\":\"http://pacs/rs\",\"tags\":[]}"

RECURSIVE JoinRecords(_)
JoinRecords(ids) ==
  IF ids = <<>> THEN ""
  ELSE IF Len(ids) = 1 THEN ConfigText(Head(ids))
       ELSE ConfigText(Head(ids)) \o "," \o JoinRecords(Tail(ids))

\* JSON text of an array of records
ListText(ids) == "[" \o JoinRecords(ids) \o "]"

\* The lists the backend can hold: records in creation order, some deleted.
PacsIds == {IdOf(n) : n \in 1..MaxPacsActions}
PacsLists ==
  {SelectSeq([n \in 1..MaxPacsActions |-> IdOf(n)], LAMBDA id : id \in S) :
     S \in SUBSET PacsIds}

ListBody(ids) == "{\"status\":\"success\",\"data\":" \o ListText(ids) \o "}"
RecordBody(id) == "{\"status\":\"success\",\"data\":" \o ConfigText(id) \o "}"
PacsListBodies == {ListBody(l) : l \in PacsLists}
PacsRecordBodies == {RecordBody(id) : id \in PacsIds}

\* Reading a JSON array of records: the ids of its elements, in order.
IdsOfText(text) == CHOOSE l \in PacsLists : ListText(l) = text
\* Reading a record: its id member.
IdOfText(text) == CHOOSE id \in PacsIds : ConfigText(id) = text

\* JSON.parse of a PACS response body
PacsParse(text) ==
  IF text \in PacsListBodies
    THEN Success(DArr(ListText(CHOOSE l \in PacsLists : ListBody(l) = text)))
    ELSE LET id == CHOOSE i \in PacsIds : RecordBody(i) = text
         IN  Success([DObj(ConfigText(id)) EXCEPT !.id = id])

\* JSON.parse on the bodies above: the value, or threw (SyntaxError).
JsonParse(text) ==
  IF text \in PacsListBodies \cup PacsRecordBodies
    THEN [threw |-> FALSE, v |-> PacsParse(text)]
  ELSE IF text \notin JsonBodies THEN [threw |-> TRUE, v |-> PNull]
  ELSE [threw |-> FALSE, v |->
    CASE text = BodyJsonNull -> PNull
      [] text = BodyTokA ->
           Success([DObj("{\"access_token\":\"tokA\",\"token_type\":\"bearer\"}")
                      EXCEPT !.access_token = "tokA"])
      [] text = BodyTokB ->
           Success([DObj("{\"token\":\"tokB\"}") EXCEPT !.token = "tokB"])
      [] text = BodyTokBob ->
           Success([DObj("{\"access_token\":\"tokB\"}") EXCEPT !.access_token = "tokB"])
      [] text = BodyTokBoth ->
           Success([DObj("{\"access_token\":\"tokA\",\"token\":\"tokB\"}")
                      EXCEPT !.access_token = "tokA", !.token = "tokB"])
      [] text = BodyTokStr -> Success(DStr("tokC"))
      [] text = BodyTokEmpty ->
           Success([DObj("{\"access_token\":\"\"}") EXCEPT !.access_token = ""])
      [] text = BodyUserTok ->
           Success([DObj("{\"user\":" \o UserAnnJson \o ",\"access_token\":\"tokA\"}")
                      EXCEPT !.user = UserAnnJson, !.access_token = "tokA"])
      [] text = BodyUserAnn ->
           Success([DObj(UserAnnJson) EXCEPT !.id = "1", !.username = "ann"])
      [] text = BodyUserBob ->
           Success([DObj(UserBobJson) EXCEPT !.id = "2", !.username = "bob"])
      [] text = BodyReply ->
           Success([DObj("{\"response\":\"hi\"}") EXCEPT !.response = "hi"])
      [] text = BodyLlm ->
           Success([DObj("{\"llm\":\"hi\"}") EXCEPT !.llm = "hi"])
      [] text = BodyChats ->
           Success([DObj("{\"messages\":[]}") EXCEPT !.messages = "[]"])
      [] text = BodyChatsOld ->
           Success([DObj("{\"messages\":" \o HistoryJson \o "}")
                      EXCEPT !.messages = HistoryJson])
      [] text = BodyConfigs -> Success(DArr(ConfigsJson))
      [] text = BodyConfig ->
           Success([DObj(ConfigJson) EXCEPT !.id = "p1"])
      [] text = BodyOkNoData -> [Success(DUndef) EXCEPT !.message = "done"]
      [] text = BodyOkNullData -> Success(DNull)
      [] text = BodyErrMsg -> Failure("Invalid credentials")
      [] text = BodyErrBare -> Failure(UNDEF)
      [] text = BodyErrDetails ->
           [Failure("Bad") EXCEPT !.code = "E",
              !.details = ArrDetails(<<"field required", "too short">>)]
      [] text = BodyErrDetailsNoMsg ->
           [Failure("Bad") EXCEPT !.code = "E", !.details = ArrDetails(<<UNDEF>>)]
      [] text = BodyErrDetailsStr ->
           [Failure(UNDEF) EXCEPT !.code = "E", !.details = StrDetails("boom")]
      [] text = BodyValidation ->
           [PObj EXCEPT !.detail = ArrDetails(<<"field required", "too short">>)]
      [] text = BodyValidationOne ->
           [PObj EXCEPT !.detail = ArrDetails(<<"field required">>)]
      [] text = BodyValidationGap ->
           [PObj EXCEPT !.detail = ArrDetails(<<"field required", "", "too short">>)]
      [] text = BodyValidationNone -> [PObj EXCEPT !.detail = ArrDetails(<<>>)]
      [] text = BodyValidationMsg ->
           [PObj EXCEPT !.message = "Unprocessable",
              !.detail = ArrDetails(<<"field required">>)]
      [] text = BodyDetailStr ->
           [PObj EXCEPT !.detail = StrDetails("Not authenticated")]]

\* JSON.stringify(data).  JSON.stringify(undefined) is undefined, which
\* localStorage.setItem stores as the text "undefined".
JsonStringify(json) == IF json = UNDEF THEN "undefined" ELSE json

\* JSON.parse of a stored current_user text: threw for text that is no JSON.
ParsesAsJson(text) == text # "undefined"

\* ------------------------------------------------------------------------
\* Array helpers of the error normalisation.
\* ------------------------------------------------------------------------
\* msgs.filter(Boolean)
RECURSIVE FilterBoolean(_)
FilterBoolean(msgs) ==
  IF msgs = <<>> THEN <<>>
  ELSE IF Truthy(Head(msgs)) THEN <<Head(msgs)>> \o FilterBoolean(Tail(msgs))
       ELSE FilterBoolean(Tail(msgs))

\* msgs.join(', ') on strings
RECURSIVE Join(_)
Join(msgs) ==
  IF msgs = <<>> THEN ""
  ELSE IF Len(msgs) = 1 THEN Head(msgs)
       ELSE Head(msgs) \o ", " \o Join(Tail(msgs))

\* [object Object],[object Object] : Array.prototype.toString on {msg} items
RECURSIVE ArrayToString(_)
ArrayToString(msgs) ==
  IF msgs = <<>> THEN ""
  ELSE IF Len(msgs) = 1 THEN "[object Object]"
       ELSE "[object Object]," \o ArrayToString(Tail(msgs))

\* ------------------------------------------------------------------------
\* What one backend call can end in.  kind: "neterr" (fetch rejects),
\* "abort" (the timeout aborted the fetch), "bodyerr" (reading the body
\* rejects) or "http" (status and body text delivered).
\* ------------------------------------------------------------------------
HttpStatuses == {200, 401, 403, 422, 502}
Http(status, body) == [kind |-> "http", status |-> status, body |-> body]
NetErr == [kind |-> "neterr", status |-> 0, body |-> BodyEmpty]
Abort == [kind |-> "abort", status |-> 0, body |-> BodyEmpty]
BodyErr(status) == [kind |-> "bodyerr", status |-> status, body |-> BodyEmpty]

\* response.ok
ResponseOk(status) == status >= 200 /\ status <= 299

\* ------------------------------------------------------------------------
\* What an operation returns and what it does to localStorage.
\* ------------------------------------------------------------------------
KEEP == "<keep>"
NoRet ==
  [threw |-> FALSE, error |-> UNDEF, token |-> UNDEF, user |-> UNDEF,
   value |-> UNDEF, success |-> UNDEF]
ErrRet(e) == [NoRet EXCEPT !.error = e]
Throws == [NoRet EXCEPT !.threw = TRUE]
NoFx == [setToken |-> KEEP, setUser |-> KEEP, clear |-> FALSE]
ClearFx == [NoFx EXCEPT !.clear = TRUE]
Out(ret, fx) == [ret |-> ret, fx |-> fx]

\* (mutant of TryCatch: no catch block, the exception escapes)
TryRethrow(body, handler) == body

\* try { body } catch { return handler } : an exception raised in the body
\* becomes the handler's value.
TryCatch(body, handler) == IF body.ret.threw THEN Out(handler, NoFx) ELSE body

\* localStorage.setItem stores the string conversion of its argument.
StoreText(v) == IF v = UNDEF THEN "undefined" ELSE v

\* ------------------------------------------------------------------------
\* api "executor": src/src/lib/api.ts
\* ------------------------------------------------------------------------
TimeoutMessage == "Request timed out. Please try again."
NetworkMessage == "Network error. Please try again."

isAbortError(kind) == kind = "abort"

\* (mutant of networkErrorMessage: one message for every failure)
networkErrorMessageGeneric(kind) == NetworkMessage

networkErrorMessage(kind) ==
  IF isAbortError(kind) THEN TimeoutMessage ELSE NetworkMessage

NonJsonEnvelope(text) ==
  [PObj EXCEPT !.status = "error", !.message = text, !.data = DNull,
     !.code = "NON_JSON_RESPONSE", !.details = NullDetails]

\* safeReadJson once JSON.parse has run on the (non-empty) text.
safeReadParsed(text, j) ==
  IF text = "" THEN PNull
  ELSE IF j.threw THEN NonJsonEnvelope(text)
       ELSE j.v

safeReadJson(text) == safeReadParsed(text, JsonParse(text))

\* requestApi: the payload, or the exception of fetchWithTimeout / text().
requestApi(outcome) ==
  [threw |-> outcome.kind # "http", v |-> safeReadJson(outcome.body)]

getErrorMessage(p) ==
  IF p.details.t = "arr"
    THEN Or(Or(Join(FilterBoolean(p.details.msgs)), p.message), "An error occurred")
    ELSE IF p.detail.t = "arr"
      THEN Or(Join(FilterBoolean(p.detail.msgs)), "Validation failed")
      ELSE Or(p.message, "An error occurred")

\* (mutant of loginTry: a failed login also clears the Session Store)
loginTryClearing(r) ==
  IF r.threw THEN Out(Throws, NoFx)
  ELSE IF r.v.status = "success" /\ Truthy(r.v.data.access_token)
    THEN Out([NoRet EXCEPT !.token = r.v.data.access_token],
             [NoFx EXCEPT !.setToken = r.v.data.access_token])
    ELSE Out(ErrRet(getErrorMessage(r.v)), ClearFx)

\* The try block of each operation, given what requestApi produced.
loginTry(r) ==
  IF r.threw THEN Out(Throws, NoFx)
  ELSE IF r.v.status = "success" /\ Truthy(r.v.data.access_token)
    THEN Out([NoRet EXCEPT !.token = r.v.data.access_token],
             [NoFx EXCEPT !.setToken = r.v.data.access_token])
    ELSE Out(ErrRet(getErrorMessage(r.v)), NoFx)

login(outcome) ==
  TryCatch(loginTry(requestApi(outcome)), ErrRet(networkErrorMessage(outcome.kind)))

UserJson(id, username) ==
  "{\"id\":\"" \o id \o "\",\"username\":\"" \o username \o "\"}"

signupTry(r) ==
  IF r.threw THEN Out(Throws, NoFx)
  ELSE IF r.v.status = "success" /\ Truthy(r.v.data.id) /\ Truthy(r.v.data.username)
    THEN Out([NoRet EXCEPT !.user = UserJson(r.v.data.id, r.v.data.username)], NoFx)
    ELSE Out(ErrRet(getErrorMessage(r.v)), NoFx)

signup(outcome) ==
  TryCatch(signupTry(requestApi(outcome)), ErrRet(networkErrorMessage(outcome.kind)))

meTry(r) ==
  IF r.threw THEN Out(Throws, NoFx)
  ELSE IF r.v.status = "success" /\ DataTruthy(r.v.data)
    THEN Out([NoRet EXCEPT !.user = r.v.data.json],
             [NoFx EXCEPT !.setUser = JsonStringify(r.v.data.json)])
    ELSE Out(ErrRet(Or(getErrorMessage(r.v), "Failed to get user info")), NoFx)

me(outcome) ==
  TryCatch(meTry(requestApi(outcome)), ErrRet(networkErrorMessage(outcome.kind)))

sendMessageTry(r) ==
  IF r.threw THEN Out(Throws, NoFx)
  ELSE IF r.v.status = "success" /\ Truthy(r.v.data.response)
    THEN Out([NoRet EXCEPT !.value = r.v.data.response], NoFx)
    ELSE Out(ErrRet(Or(getErrorMessage(r.v), "Failed to get response")), NoFx)

sendMessage(outcome) ==
  TryCatch(sendMessageTry(requestApi(outcome)),
           ErrRet(networkErrorMessage(outcome.kind)))

\* getConfigurations, createConfiguration and updateConfiguration differ in
\* the request they send and in their default message only.
dataOrErrorTry(r, default) ==
  IF r.threw THEN Out(Throws, NoFx)
  ELSE IF r.v.status = "success" /\ DataTruthy(r.v.data)
    THEN Out([NoRet EXCEPT !.value = r.v.data.json], NoFx)
    ELSE Out(ErrRet(Or(getErrorMessage(r.v), default)), NoFx)

DefaultMessage(o) ==
  CASE o = "login" -> "Login failed"
    [] o = "signup" -> "Signup failed"
    [] o = "me" -> "Failed to get user info"
    [] o = "getAllChats" -> "Failed to load chats"
    [] o = "sendMessage" -> "Failed to get response"
    [] o = "getConfigurations" -> "Failed to load configurations"
    [] o = "createConfiguration" -> "Failed to create configuration"
    [] o = "updateConfiguration" -> "Failed to update configuration"
    [] o = "deleteConfiguration" -> "Failed to delete configuration"

\* getConfigurations / createConfiguration / updateConfiguration of api.ts
configurationRequest(o, outcome) ==
  TryCatch(dataOrErrorTry(requestApi(outcome), DefaultMessage(o)),
           ErrRet(networkErrorMessage(outcome.kind)))

deleteConfigurationTry(r) ==
  IF r.threw THEN Out(Throws, NoFx)
  ELSE IF r.v.status = "success"
    THEN Out([NoRet EXCEPT !.success = "true"], NoFx)
    ELSE Out([ErrRet(Or(getErrorMessage(r.v), "Failed to delete configuration"))
                EXCEPT !.success = "false"], NoFx)

deleteConfiguration(outcome) ==
  TryCatch(deleteConfigurationTry(requestApi(outcome)),
           [ErrRet(networkErrorMessage(outcome.kind)) EXCEPT !.success = "false"])

\* ------------------------------------------------------------------------
\* api "status": src/unnamed/part_001
\* ------------------------------------------------------------------------
AuthFailedMessage == "Authentication failed. Please login again."

\* await response.json(): rejects when the body cannot be read or is no JSON.
jsonOf(kind, j) == [threw |-> kind # "http" \/ j.threw, v |-> j.v]
responseJson(outcome) == jsonOf(outcome.kind, JsonParse(outcome.body))

\* details?.toString()
DetailsToString(d) ==
  CASE d.t = "str" -> d.s
    [] d.t = "arr" -> ArrayToString(d.msgs)
    [] OTHER -> UNDEF

\* The 422 branch: errorData.detail?.map(d => d.msg).filter(Boolean) || []
validationError(e) ==
  IF e.threw \/ e.v.t = "null" \/ e.v.detail.t = "str"
    THEN Out(Throws, NoFx)
    ELSE Out(ErrRet(Or(Join(FilterBoolean(e.v.detail.msgs)), "Validation error")),
             NoFx)

\* The token of a login/signup response: a bare string, access_token or token.
extractToken(data) ==
  IF data.t = "str" THEN data.s
  ELSE IF Truthy(data.access_token) THEN data.access_token
  ELSE IF Truthy(data.token) THEN data.token
  ELSE NULLV

tokenTry_001(outcome, r, default) ==
  IF outcome.kind \in {"neterr", "abort"} THEN Out(Throws, NoFx)
  ELSE IF outcome.status = 422 THEN validationError(r)
  ELSE IF r.threw \/ r.v.t = "null" THEN Out(Throws, NoFx)
  ELSE IF ResponseOk(outcome.status) /\ r.v.status = "success"
          /\ DataTruthy(r.v.data) /\ Truthy(extractToken(r.v.data))
    THEN Out([NoRet EXCEPT !.token = extractToken(r.v.data)],
             [NoFx EXCEPT !.setToken = extractToken(r.v.data)])
    ELSE Out(ErrRet(Or(Or(r.v.message, DetailsToString(r.v.details)), default)), NoFx)

\* authAPI.login / authAPI.signup of part_001
tokenRequest_001(o, outcome) ==
  TryCatch(tokenTry_001(outcome, responseJson(outcome), DefaultMessage(o)),
           ErrRet(NetworkMessage))

\* Every other operation of part_001 starts alike; they differ in whether a
\* 401/403 runs authAPI.logout(), whether 422 is read as a validation error,
\* what the success value is, and in the default message.  NoRet: go on.
preamble_001(outcome, r, logsOut, reads422, default) ==
  IF outcome.kind \in {"neterr", "abort"} THEN Out(Throws, NoFx)
  ELSE IF ~ResponseOk(outcome.status) /\ outcome.status \in {401, 403}
    THEN Out(ErrRet(AuthFailedMessage), IF logsOut THEN ClearFx ELSE NoFx)
  ELSE IF ~ResponseOk(outcome.status) /\ reads422 /\ outcome.status = 422
    THEN validationError(r)
  ELSE IF r.threw \/ r.v.t = "null" THEN Out(Throws, NoFx)
  ELSE IF ~ResponseOk(outcome.status)
    THEN Out(ErrRet(Or(r.v.message, default)), NoFx)
  ELSE Out(NoRet, NoFx)

LogsOutOn401(o) == o # "sendMessage"
Reads422(o) == o \in {"sendMessage", "createConfiguration", "updateConfiguration"}

\* The value a 2xx success envelope maps to, per operation of part_001.
successOf_001(o, p) ==
  CASE o = "me" ->
         Out([NoRet EXCEPT !.user = p.data.json],
             [NoFx EXCEPT !.setUser = JsonStringify(p.data.json)])
    [] o = "getAllChats" ->
         Out([NoRet EXCEPT !.value =
                IF p.data.messages # UNDEF THEN p.data.messages ELSE "[]"], NoFx)
    [] o = "sendMessage" -> Out([NoRet EXCEPT !.value = p.data.llm], NoFx)
    [] o = "deleteConfiguration" -> Out([NoRet EXCEPT !.success = "true"], NoFx)
    [] OTHER -> Out([NoRet EXCEPT !.value = p.data.json], NoFx)

\* The message of a 2xx envelope that is no success, per operation.
failureOf_001(o, p, default) ==
  IF o = "sendMessage" THEN Or(DetailsToString(p.details), default)
  ELSE Or(p.message, default)

bodyTry_001(o, pre, p, default) ==
  IF pre.ret # NoRet THEN pre
  ELSE IF p.status = "success" /\ (o = "deleteConfiguration" \/ DataTruthy(p.data))
    THEN successOf_001(o, p)
    ELSE Out(ErrRet(failureOf_001(o, p, default)), NoFx)

requestTry_001(o, outcome, r, default) ==
  bodyTry_001(o, preamble_001(outcome, r, LogsOutOn401(o), Reads422(o), default),
              r.v, default)

\* deleteConfiguration reports success: false beside every error.
withSuccessFlag(o, out) ==
  IF o = "deleteConfiguration" /\ out.ret.success # "true"
    THEN Out([out.ret EXCEPT !.success = "false"], out.fx)
    ELSE out

\* me, getAllChats, sendMessage and the pacsAPI operations of part_001
request_001(o, outcome) ==
  withSuccessFlag(o,
    TryCatch(requestTry_001(o, outcome, responseJson(outcome), DefaultMessage(o)),
             ErrRet(IF o = "me" THEN "Network error" ELSE NetworkMessage)))

\* ------------------------------------------------------------------------
\* api "legacy": src/unnamed/part_002
\* ------------------------------------------------------------------------
successOf_002(o, p) ==
  CASE o \in {"login", "signup"} ->
         Out([NoRet EXCEPT !.user = p.data.user, !.token = p.data.access_token],
             [NoFx EXCEPT !.setToken = StoreText(p.data.access_token),
                          !.setUser = JsonStringify(p.data.user)])
    [] o = "me" ->
         Out([NoRet EXCEPT !.user = p.data.json],
             [NoFx EXCEPT !.setUser = JsonStringify(p.data.json)])
    [] o = "sendMessage" -> Out([NoRet EXCEPT !.value = p.data.response], NoFx)
    [] o = "deleteConfiguration" -> Out([NoRet EXCEPT !.success = "true"], NoFx)
    [] OTHER -> Out([NoRet EXCEPT !.value = p.data.json], NoFx)

failureOf_002(o, p, default) ==
  IF o \in {"login", "signup"}
    THEN Or(Or(p.message, DetailsToString(p.details)), default)
    ELSE Or(p.message, default)

requestTry_002(o, r, default) ==
  IF r.threw \/ r.v.t = "null" THEN Out(Throws, NoFx)
  ELSE IF r.v.status = "success" /\ (o = "deleteConfiguration" \/ DataTruthy(r.v.data))
    THEN successOf_002(o, r.v)
    ELSE Out(ErrRet(failureOf_002(o, r.v, default)), NoFx)

\* Every operation of part_002
request_002(o, outcome) ==
  withSuccessFlag(o,
    TryCatch(requestTry_002(o, responseJson(outcome), DefaultMessage(o)),
             ErrRet(IF o = "me" THEN "Network error" ELSE NetworkMessage)))

\* ------------------------------------------------------------------------
\* The operations of each revision.
\* ------------------------------------------------------------------------
ApiVariants == {"executor", "status", "legacy"}

Operations ==
  {"login", "signup", "me", "getAllChats", "sendMessage", "getConfigurations",
   "createConfiguration", "updateConfiguration", "deleteConfiguration"}

\* getAllChats exists in part_001 only.
HasOperation(api, op) == op = "getAllChats" => api = "status"

\* Only fetchWithTimeout of api.ts arms a timer that can abort the fetch.
HasTimeout(api) == api = "executor"

Handle(a, o, outcome) ==
  CASE a = "executor" ->
         (CASE o = "login" -> login(outcome)
            [] o = "signup" -> signup(outcome)
            [] o = "me" -> me(outcome)
            [] o = "sendMessage" -> sendMessage(outcome)
            [] o = "deleteConfiguration" -> deleteConfiguration(outcome)
            [] OTHER -> configurationRequest(o, outcome))
    [] a = "status" ->
         (IF o \in {"login", "signup"} THEN tokenRequest_001(o, outcome)
          ELSE request_001(o, outcome))
    [] a = "legacy" -> request_002(o, outcome)

\* ------------------------------------------------------------------------
\* State.
\* ------------------------------------------------------------------------
VARIABLES
  api,        \* which revision of lib/api is loaded
  ctx,        \* which revision of AuthContext is loaded
  lsToken,    \* localStorage auth_token   (NULLV when absent)
  lsUser,     \* localStorage current_user (NULLV when absent)
  ctxToken,   \* AuthProvider state: token
  ctxUser,    \* AuthProvider state: user
  isLoading,  \* AuthProvider state: isLoading
  boot,       \* the mount effect of AuthProvider and its me() call
  calls,      \* the login calls in progress
  last,       \* the operation of the Session Context that completed last
  domain,     \* the domain request of a page (getConfigurations) in flight
  op,         \* one API operation followed through its request ...
  phase,      \* ... "ready", "fetching", "reading", "settled" or "done"
  timer,      \* the timeout of fetchWithTimeout: none, armed, cleared, fired
  aborted,    \* controller.signal.aborted
  response,   \* the outcome the operation saw
  result,     \* what the operation returned
  pacs,       \* PACSConfig component state
  server,     \* the backend's stored PACS configurations
  reqs,       \* the PACS requests in flight, in the order issued
  pacsLast,   \* what the PACS screen did last
  chat,       \* Chat component state, revision part_003 (server history)
  local,      \* Chat component state, revision pages/Chat.tsx (conversations)
  chatLast    \* what the Chat screen did last

vars ==
  <<api, ctx, lsToken, lsUser, ctxToken, ctxUser, isLoading, boot, calls, last,
    domain, op, phase, timer, aborted, response, result, pacs, server, reqs, pacsLast,
    chat, local, chatLast>>

sessionVars ==
  <<ctx, ctxToken, ctxUser, isLoading, boot, calls, last, domain>>
requestVars == <<op, phase, timer, aborted, response, result>>
pacsVars == <<pacs, server, reqs, pacsLast>>
chatVars == <<chat, local, chatLast>>

\* No domain request is in flight.
NoDomain == [pc |-> "idle"]

\* PACSConfig before it is mounted: useState([]), useState(true),
\* useState(false).  submits, deletes and seq count what the screen issued;
\* latest is the number of the list fetch issued last.
PacsScreenInit ==
  [mounted |-> FALSE, configurations |-> "[]", isLoading |-> TRUE,
   isSubmitting |-> FALSE, toast |-> UNDEF, submits |-> 0, deletes |-> 0,
   seq |-> 0, latest |-> 0]
ServerInit == [list |-> <<>>, created |-> 0]
NoPacsLast == [ev |-> "none", ok |-> FALSE, cause |-> UNDEF, n |-> 0]
PacsIdle ==
  /\ pacs = PacsScreenInit
  /\ server = ServerInit
  /\ reqs = <<>>
  /\ pacsLast = NoPacsLast

\* Chat (part_003) before it is mounted: useState([]), useState(false),
\* useState(true).  inflight counts the sendMessage requests outstanding,
\* sends the messages the user sent, made the message ids handed out, now
\* the value Date.now() returned last.
ChatScreenInit ==
  [mounted |-> FALSE, messages |-> <<>>, isLoading |-> FALSE,
   isLoadingChats |-> TRUE, load |-> "none", inflight |-> 0, sends |-> 0,
   made |-> 0, now |-> 1, toast |-> UNDEF]

\* Chat (pages/Chat.tsx) before it is mounted: useState([]), useState(null),
\* useState(false).  stored is localStorage medchat_conversations, target
\* the conversationId the outstanding send holds, made the conversation ids
\* handed out.
LocalScreenInit ==
  [mounted |-> FALSE, conversations |-> <<>>, active |-> NULLV,
   isLoading |-> FALSE, inflight |-> 0, target |-> UNDEF, sends |-> 0,
   made |-> 0, stored |-> NULLV, toast |-> UNDEF,
   pending |-> FALSE, queued |-> <<>>]

NoChatLast == [ev |-> "none", refused |-> FALSE]
ChatIdle ==
  /\ chat = ChatScreenInit
  /\ local = LocalScreenInit
  /\ chatLast = NoChatLast

\* What the Session Context did last: the operation, what login/signup
\* returned, whether its token request and its me() call succeeded,
\* whether logout found anything to clear, and whether the signup endpoint
\* accepted the signup.
NoLast ==
  [op |-> "none", success |-> FALSE, error |-> UNDEF, tokOk |-> FALSE,
   meOk |-> FALSE, hadSession |-> FALSE, accepted |-> FALSE]
Did(o) == [NoLast EXCEPT !.op = o]

\* (mutant of TokenAfter: setItem('auth_token', ...) has no effect)
TokenNotWritten(fx, old) == IF fx.clear THEN NULLV ELSE old

\* localStorage after an operation's writes.
TokenAfter(fx, old) ==
  IF fx.clear THEN NULLV ELSE IF fx.setToken # KEEP THEN fx.setToken ELSE old
UserAfter(fx, old) ==
  IF fx.clear THEN NULLV ELSE IF fx.setUser # KEEP THEN fx.setUser ELSE old

\* authAPI.getToken / getCurrentUser / logout
getToken(token) == token
getCurrentUser(user) ==
  IF user = NULLV \/ user = "" THEN [threw |-> FALSE, v |-> NULLV]
  ELSE IF ParsesAsJson(user) THEN [threw |-> FALSE, v |-> user]
  ELSE [threw |-> TRUE, v |-> NULLV]
\* (mutant of logout: only current_user is removed)
logoutUserOnly == [NoFx EXCEPT !.setUser = NULLV]
\* (mutant of logout: only auth_token is removed)
logoutTokenOnly == [NoFx EXCEPT !.setToken = NULLV]
logout == ClearFx

\* authHeaders: the Authorization header, when a token is stored.
authHeaders(token) == IF Truthy(token) THEN token ELSE UNDEF

\* ------------------------------------------------------------------------
\* One API operation, from the fetch to the returned value.
\* ------------------------------------------------------------------------
NoOutcome == [kind |-> "none", status |-> 0, body |-> BodyEmpty]

\* fetchWithTimeout arms the timer before the fetch ...
TimerAtFetch(a) == IF HasTimeout(a) THEN "armed" ELSE "none"
\* ... and clears it in its finally block, when the fetch has settled.
TimerAtSettle(a, t) == IF HasTimeout(a) THEN "cleared" ELSE t

\* part_001 answers a 401/403 from the status line, without reading the body.
ReadsBody(a, o, status) ==
  ~(a = "status" /\ o \notin {"login", "signup"} /\ status \in {401, 403})

RequestInit ==
  /\ api \in ApiVariants
  /\ op \in {o \in Operations : HasOperation(api, o)}
  /\ lsToken \in {NULLV, "tok0"}
  /\ lsUser \in {NULLV, UserAnnJson}
  /\ phase = "ready"
  /\ timer = "none"
  /\ aborted = FALSE
  /\ response = NoOutcome
  /\ result = NoRet
  /\ ctx = "rollback"
  /\ ctxToken = NULLV
  /\ ctxUser = NULLV
  /\ isLoading = FALSE
  /\ boot = [pc |-> "done", hdr |-> UNDEF]
  /\ calls = <<>>
  /\ last = NoLast
  /\ domain = NoDomain
  /\ PacsIdle
  /\ ChatIdle

Issue ==
  /\ phase = "ready"
  /\ phase' = "fetching"
  /\ timer' = TimerAtFetch(api)
  /\ UNCHANGED <<api, lsToken, lsUser, op, aborted, response, result>>
  /\ UNCHANGED sessionVars
  /\ UNCHANGED pacsVars
  /\ UNCHANGED chatVars

\* The awaited promise settles with this outcome.
Settle(outcome) ==
  /\ phase' = "settled"
  /\ response' = outcome
  /\ UNCHANGED <<api, lsToken, lsUser, op, result>>
  /\ UNCHANGED sessionVars
  /\ UNCHANGED pacsVars
  /\ UNCHANGED chatVars

\* The timeout callback: controller.abort() rejects what is pending.
TimerFires ==
  /\ timer = "armed"
  /\ timer' = "fired"
  /\ aborted' = TRUE
  /\ IF phase \in {"fetching", "reading"}
       THEN Settle([Abort EXCEPT !.status = response.status])
       ELSE UNCHANGED <<api, lsToken, lsUser, op, phase, response, result>>
            /\ UNCHANGED sessionVars
            /\ UNCHANGED pacsVars
            /\ UNCHANGED chatVars

FetchRejects ==
  /\ phase = "fetching"
  /\ timer' = TimerAtSettle(api, timer)
  /\ Settle(NetErr)
  /\ UNCHANGED aborted

FetchResolves ==
  /\ phase = "fetching"
  /\ timer' = TimerAtSettle(api, timer)
  /\ \E status \in HttpStatuses :
       IF ReadsBody(api, op, status)
         THEN /\ phase' = "reading"
              /\ response' = [kind |-> "headers", status |-> status, body |-> BodyEmpty]
              /\ UNCHANGED <<api, lsToken, lsUser, op, result>>
              /\ UNCHANGED sessionVars
              /\ UNCHANGED pacsVars
              /\ UNCHANGED chatVars
         ELSE Settle(Http(status, BodyEmpty))
  /\ UNCHANGED aborted

BodyArrives ==
  /\ phase = "reading"
  /\ \E body \in Bodies : Settle(Http(response.status, body))
  /\ UNCHANGED <<timer, aborted>>

BodyFails ==
  /\ phase = "reading"
  /\ Settle(BodyErr(response.status))
  /\ UNCHANGED <<timer, aborted>>

\* The operation runs on from its await and returns.
Complete(out) ==
  /\ phase' = "done"
  /\ result' = out.ret
  /\ lsToken' = TokenAfter(out.fx, lsToken)
  /\ lsUser' = UserAfter(out.fx, lsUser)
  /\ UNCHANGED <<api, op, timer, aborted, response>>
  /\ UNCHANGED sessionVars
  /\ UNCHANGED pacsVars
  /\ UNCHANGED chatVars

Return ==
  /\ phase = "settled"
  /\ Complete(Handle(api, op, response))

RequestNext ==
  \/ Issue
  \/ TimerFires
  \/ FetchRejects
  \/ FetchResolves
  \/ BodyArrives
  \/ BodyFails
  \/ Return

RequestSpec == RequestInit /\ [][RequestNext]_vars

\* The steps the JavaScript runtime itself takes are fair: the request is
\* issued, an armed timer fires, a settled await runs on.  What the backend
\* does (answering, sending the body) is not.
RequestLiveSpec ==
  /\ RequestInit
  /\ [][RequestNext]_vars
  /\ WF_vars(Issue)
  /\ WF_vars(TimerFires)
  /\ WF_vars(Return)

\* ------------------------------------------------------------------------
\* The Session Context (AuthProvider) over the Session Store and authAPI.
\* ------------------------------------------------------------------------
CtxVariants == {"basic", "rollback"}

\* How many login calls can be in progress at once.
MaxCalls == 2
Calls == 1..MaxCalls

IdleCall == [pc |-> "idle", tok |-> UNDEF, hdr |-> UNDEF]

\* (mutant of isAuthenticated: the earlier !!user)
isAuthenticatedUserOnly(user, token) == Truthy(user)

\* isAuthenticated: !!user && !!token
isAuthenticated(user, token) == Truthy(user) /\ Truthy(token)

\* What the login endpoint can answer: a success envelope in one of the shapes
\* the revisions read (access_token, token, a bare string, user with
\* access_token), one whose access_token is empty, or a failure.
LoginOutcomes(a) ==
  {Http(200, BodyTokA), Http(200, BodyTokBob), Http(200, BodyUserTok),
   Http(200, BodyTokB), Http(200, BodyTokStr), Http(200, BodyTokEmpty),
   Http(401, BodyErrMsg), Http(422, BodyValidation), NetErr}
    \cup (IF HasTimeout(a) THEN {Abort} ELSE {})

\* What /auth/me can answer to a request carrying this Authorization header:
\* the profile of the token's owner, or a failure.
MeOutcomes(a, hdr) ==
  (CASE hdr = "tokA" -> {Http(200, BodyUserAnn)}
     [] hdr = "tokB" -> {Http(200, BodyUserBob)}
     [] OTHER -> {})
    \cup {Http(401, BodyErrMsg), Http(502, BodyHtml), NetErr}
    \cup (IF HasTimeout(a) THEN {Abort} ELSE {})

SessionInit ==
  /\ api \in ApiVariants
  /\ ctx \in CtxVariants
  /\ lsToken \in {NULLV, "tokA"}
  /\ lsUser \in {NULLV, UserAnnJson} \cup (IF api = "legacy" THEN {"undefined"} ELSE {})
  /\ ctxToken = NULLV
  /\ ctxUser = NULLV
  /\ isLoading = TRUE
  /\ boot = [pc |-> "start", hdr |-> UNDEF]
  /\ calls = [c \in Calls |-> IdleCall]
  /\ last = NoLast
  /\ domain = NoDomain
  /\ op = "none"
  /\ phase = "done"
  /\ timer = "none"
  /\ aborted = FALSE
  /\ response = NoOutcome
  /\ result = NoRet
  /\ PacsIdle
  /\ ChatIdle

Mounted == boot.pc \in {"validating", "done"}

\* The mount effect: rehydrate from the Session Store and re-validate.
Mount ==
  /\ boot.pc = "start"
  /\ IF getCurrentUser(lsUser).threw
       THEN /\ boot' = [boot EXCEPT !.pc = "crashed"]
            /\ UNCHANGED <<ctxToken, ctxUser, isLoading>>
       ELSE IF Truthy(getToken(lsToken)) /\ Truthy(getCurrentUser(lsUser).v)
         THEN /\ ctxToken' = getToken(lsToken)
              /\ ctxUser' = getCurrentUser(lsUser).v
              /\ boot' = [pc |-> "validating", hdr |-> authHeaders(lsToken)]
              /\ isLoading' = FALSE
         ELSE /\ boot' = [boot EXCEPT !.pc = "done"]
              /\ isLoading' = FALSE
              /\ UNCHANGED <<ctxToken, ctxUser>>
  /\ last' = Did("mount")
  /\ UNCHANGED <<api, ctx, domain, lsToken, lsUser, calls>>
  /\ UNCHANGED requestVars
  /\ UNCHANGED pacsVars
  /\ UNCHANGED chatVars

\* .then of the mount effect's authAPI.me()
MountValidated(out) ==
  /\ IF Truthy(out.ret.user)
       THEN /\ ctxUser' = out.ret.user
            /\ lsToken' = TokenAfter(out.fx, lsToken)
            /\ lsUser' = UserAfter(out.fx, lsUser)
            /\ UNCHANGED ctxToken
       ELSE /\ lsToken' = TokenAfter(logout, lsToken)
            /\ lsUser' = UserAfter(logout, lsUser)
            /\ ctxUser' = NULLV
            /\ ctxToken' = NULLV
  /\ boot' = [boot EXCEPT !.pc = "done"]
  /\ last' = [Did("validated") EXCEPT !.meOk = Truthy(out.ret.user)]
  /\ UNCHANGED <<api, ctx, domain, isLoading, calls>>
  /\ UNCHANGED requestVars
  /\ UNCHANGED pacsVars
  /\ UNCHANGED chatVars

MountMeReturns ==
  /\ boot.pc = "validating"
  /\ \E outcome \in MeOutcomes(api, boot.hdr) :
       MountValidated(Handle(api, "me", outcome))

\* login(username, password): the token request is sent.
LoginCall(c) ==
  /\ Mounted
  /\ calls[c].pc = "idle"
  /\ calls' = [calls EXCEPT ![c].pc = "login"]
  /\ last' = Did("call")
  /\ UNCHANGED <<api, ctx, domain, lsToken, lsUser, ctxToken, ctxUser, isLoading, boot>>
  /\ UNCHANGED requestVars
  /\ UNCHANGED pacsVars
  /\ UNCHANGED chatVars

\* login after await authAPI.login(): fail, or setToken and call me().
LoginTokenStep(c, out) ==
  /\ lsToken' = TokenAfter(out.fx, lsToken)
  /\ lsUser' = UserAfter(out.fx, lsUser)
  /\ IF Truthy(out.ret.token)
       THEN /\ ctxToken' = out.ret.token
            /\ calls' = [calls EXCEPT ![c] =
                 [pc |-> "me", tok |-> out.ret.token,
                  hdr |-> authHeaders(TokenAfter(out.fx, lsToken))]]
            /\ last' = Did("token")
       ELSE /\ calls' = [calls EXCEPT ![c] = IdleCall]
            /\ last' = [Did("login") EXCEPT !.error = out.ret.error]
            /\ UNCHANGED ctxToken
  /\ UNCHANGED <<api, ctx, domain, ctxUser, isLoading, boot>>
  /\ UNCHANGED requestVars
  /\ UNCHANGED pacsVars
  /\ UNCHANGED chatVars

LoginTokenReturns(c) ==
  /\ calls[c].pc = "login"
  /\ \E outcome \in LoginOutcomes(api) :
       LoginTokenStep(c, Handle(api, "login", outcome))

\* Whether this revision of login undoes the session when me() gave no user.
RollsBack(v) == v = "rollback"

\* login after await authAPI.me()
LoginMeStep(c, out) ==
  /\ calls' = [calls EXCEPT ![c] = IdleCall]
  /\ IF Truthy(out.ret.user)
       THEN /\ ctxUser' = out.ret.user
            /\ lsToken' = TokenAfter(out.fx, lsToken)
            /\ lsUser' = UserAfter(out.fx, lsUser)
            /\ last' = [Did("login") EXCEPT !.success = TRUE, !.tokOk = TRUE,
                                            !.meOk = TRUE]
            /\ UNCHANGED ctxToken
       ELSE IF RollsBack(ctx)
         THEN /\ lsToken' = TokenAfter(logout, TokenAfter(out.fx, lsToken))
              /\ lsUser' = UserAfter(logout, UserAfter(out.fx, lsUser))
              /\ ctxUser' = NULLV
              /\ ctxToken' = NULLV
              /\ last' = [Did("login") EXCEPT !.tokOk = TRUE,
                            !.error = Or(out.ret.error, "Failed to load user session")]
         ELSE /\ lsToken' = TokenAfter(out.fx, lsToken)
              /\ lsUser' = UserAfter(out.fx, lsUser)
              /\ last' = [Did("login") EXCEPT !.success = TRUE, !.tokOk = TRUE]
              /\ UNCHANGED <<ctxToken, ctxUser>>
  /\ UNCHANGED <<api, ctx, domain, isLoading, boot>>
  /\ UNCHANGED requestVars
  /\ UNCHANGED pacsVars
  /\ UNCHANGED chatVars

LoginMeReturns(c) ==
  /\ calls[c].pc = "me"
  /\ \E outcome \in MeOutcomes(api, calls[c].hdr) :
       LoginMeStep(c, Handle(api, "me", outcome))

\* What the signup endpoint can answer: a success envelope in the shape one of
\* the revisions reads (the profile, a token, user and token), or a failure.
SignupOutcomes(a) ==
  {Http(200, BodyUserAnn), Http(200, BodyTokA), Http(200, BodyUserTok),
   Http(200, BodyErrMsg), Http(422, BodyValidation), NetErr}
    \cup (IF HasTimeout(a) THEN {Abort} ELSE {})

\* The backend accepted the request: 2xx and a success envelope.
Accepted(outcome) ==
  /\ outcome.kind = "http"
  /\ ResponseOk(outcome.status)
  /\ outcome.body \in {BodyUserAnn, BodyTokA, BodyUserTok}

\* signup(username, password): the signup request is sent.
SignupCall(c) ==
  /\ Mounted
  /\ calls[c].pc = "idle"
  /\ calls' = [calls EXCEPT ![c].pc = "signup"]
  /\ last' = Did("call")
  /\ UNCHANGED <<api, ctx, domain, lsToken, lsUser, ctxToken, ctxUser, isLoading, boot>>
  /\ UNCHANGED requestVars
  /\ UNCHANGED pacsVars
  /\ UNCHANGED chatVars

\* signup after await authAPI.signup(): call login, or fail.
SignupStep(c, out, accepted) ==
  /\ lsToken' = TokenAfter(out.fx, lsToken)
  /\ lsUser' = UserAfter(out.fx, lsUser)
  /\ IF Truthy(out.ret.user)
       THEN calls' = [calls EXCEPT ![c].pc = "login"]
       ELSE calls' = [calls EXCEPT ![c] = IdleCall]
  /\ last' = [Did("signup") EXCEPT !.error = out.ret.error, !.accepted = accepted]
  /\ UNCHANGED <<api, ctx, domain, ctxToken, ctxUser, isLoading, boot>>
  /\ UNCHANGED requestVars
  /\ UNCHANGED pacsVars
  /\ UNCHANGED chatVars

SignupReturns(c) ==
  /\ calls[c].pc = "signup"
  /\ \E outcome \in SignupOutcomes(api) :
       SignupStep(c, Handle(api, "signup", outcome), Accepted(outcome))

\* logout(): authAPI.logout(); setUser(null); setToken(null)
Logout ==
  /\ Mounted
  /\ lsToken' = TokenAfter(logout, lsToken)
  /\ lsUser' = UserAfter(logout, lsUser)
  /\ ctxUser' = NULLV
  /\ ctxToken' = NULLV
  /\ last' = [Did("logout") EXCEPT !.hadSession =
                 Truthy(lsToken) /\ Truthy(lsUser) /\ Truthy(ctxToken) /\ Truthy(ctxUser)]
  /\ UNCHANGED <<api, ctx, domain, isLoading, boot, calls>>
  /\ UNCHANGED requestVars
  /\ UNCHANGED pacsVars
  /\ UNCHANGED chatVars

\* What the backend can answer to a page's pacsAPI.getConfigurations().
DomainOutcomes == {Http(200, ListBody(<<>>)), Http(401, BodyErrMsg), NetErr}

\* A page outside the Session Context calls pacsAPI.getConfigurations: the
\* Authorization header is read from the Session Store at the call and leaves
\* with the request (await fetch); the client keeps no copy of it, and the
\* backend's answer is any of DomainOutcomes.  Nothing else changes until the
\* answer comes, and the callbacks of logins and logout run in between.
DomainCall ==
  /\ Mounted
  /\ domain.pc = "idle"
  /\ domain' = [pc |-> "pending"]
  /\ UNCHANGED <<api, lsToken, lsUser>>
  /\ UNCHANGED <<ctx, ctxToken, ctxUser, isLoading, boot, calls, last>>
  /\ UNCHANGED requestVars
  /\ UNCHANGED pacsVars
  /\ UNCHANGED chatVars

\* The answer of the domain request is handled: only the operation's own
\* writes to the Session Store happen, on the store as it is by then.
DomainStep(out) ==
  /\ lsToken' = TokenAfter(out.fx, lsToken)
  /\ lsUser' = UserAfter(out.fx, lsUser)
  /\ last' = Did("domain")
  /\ domain' = NoDomain
  /\ UNCHANGED <<api, ctx, ctxToken, ctxUser, isLoading, boot, calls>>
  /\ UNCHANGED requestVars
  /\ UNCHANGED pacsVars
  /\ UNCHANGED chatVars

DomainReturns ==
  /\ domain.pc = "pending"
  /\ \E outcome \in DomainOutcomes :
       DomainStep(Handle(api, "getConfigurations", outcome))

Next ==
  \/ Mount
  \/ MountMeReturns
  \/ \E c \in Calls : LoginCall(c)
  \/ \E c \in Calls : LoginTokenReturns(c)
  \/ \E c \in Calls : LoginMeReturns(c)
  \/ \E c \in Calls : SignupCall(c)
  \/ \E c \in Calls : SignupReturns(c)
  \/ Logout
  \/ DomainCall
  \/ DomainReturns

Spec == SessionInit /\ [][Next]_vars

\* ------------------------------------------------------------------------
\* The PACS Configuration screen (PACSConfig) over pacsAPI and a backend
\* that stores the records it creates.  Requests are answered and their
\* answers delivered in any order.
\* ------------------------------------------------------------------------
PacsRequest(kind, arg, cause, n) ==
  [kind |-> kind, arg |-> arg, cause |-> cause, resp |-> NoOutcome, n |-> n]

OperationOf(kind) ==
  CASE kind = "get" -> "getConfigurations"
    [] kind = "create" -> "createConfiguration"
    [] kind = "delete" -> "deleteConfiguration"

Without(seq, i) == [j \in 1..(Len(seq) - 1) |-> IF j < i THEN seq[j] ELSE seq[j + 1]]

\* loadConfigurations up to its await: setIsLoading(true), the request.
Loading(scr) ==
  [scr EXCEPT !.isLoading = TRUE, !.seq = @ + 1, !.latest = scr.seq + 1]

\* (mutant of ConfigurationsAfterLoad: the fetched list is never displayed)
ConfigurationsKept(value, old) == old

\* if (result.configs) setConfigurations(result.configs)
ConfigurationsAfterLoad(value, old) == IF Truthy(value) THEN value ELSE old

PacsInit ==
  /\ api \in ApiVariants
  /\ ctx = "rollback"
  /\ lsToken = "tok0"
  /\ lsUser = UserAnnJson
  /\ ctxToken = "tok0"
  /\ ctxUser = UserAnnJson
  /\ isLoading = FALSE
  /\ boot = [pc |-> "done", hdr |-> UNDEF]
  /\ calls = <<>>
  /\ last = NoLast
  /\ domain = NoDomain
  /\ op = "none"
  /\ phase = "done"
  /\ timer = "none"
  /\ aborted = FALSE
  /\ response = NoOutcome
  /\ result = NoRet
  /\ PacsIdle
  /\ ChatIdle

\* The mount effect: loadConfigurations()
PacsMount ==
  /\ ~pacs.mounted
  /\ pacs' = [Loading(pacs) EXCEPT !.mounted = TRUE]
  /\ reqs' = Append(reqs, PacsRequest("get", UNDEF, UNDEF, pacs.seq + 1))
  /\ pacsLast' = [NoPacsLast EXCEPT !.ev = "mount"]
  /\ UNCHANGED <<api, lsToken, lsUser, server>>
  /\ UNCHANGED sessionVars
  /\ UNCHANGED requestVars
  /\ UNCHANGED chatVars

\* handleSubmit up to its await: reject an incomplete form, or
\* setIsSubmitting(true) and the create request.
PacsSubmit ==
  /\ pacs.mounted
  /\ ~pacs.isSubmitting
  /\ pacs.submits + pacs.deletes < MaxPacsActions
  /\ \E valid \in BOOLEAN :
       IF valid
         THEN /\ pacs' = [pacs EXCEPT !.isSubmitting = TRUE, !.submits = @ + 1,
                                       !.seq = @ + 1]
              /\ reqs' = Append(reqs, PacsRequest("create", UNDEF, UNDEF, pacs.seq + 1))
         ELSE /\ pacs' = [pacs EXCEPT !.toast = "Validation Error", !.submits = @ + 1]
              /\ UNCHANGED reqs
  /\ pacsLast' = [NoPacsLast EXCEPT !.ev = "submit"]
  /\ UNCHANGED <<api, lsToken, lsUser, server>>
  /\ UNCHANGED sessionVars
  /\ UNCHANGED requestVars
  /\ UNCHANGED chatVars

\* handleDelete up to its await, on a record of the displayed list.
PacsDelete ==
  /\ pacs.mounted
  /\ ~pacs.isLoading
  /\ pacs.submits + pacs.deletes < MaxPacsActions
  /\ \E i \in 1..Len(IdsOfText(pacs.configurations)) :
       reqs' = Append(reqs, PacsRequest("delete", IdsOfText(pacs.configurations)[i],
                                        UNDEF, pacs.seq + 1))
  /\ pacs' = [pacs EXCEPT !.deletes = @ + 1, !.seq = @ + 1]
  /\ pacsLast' = [NoPacsLast EXCEPT !.ev = "delete"]
  /\ UNCHANGED <<api, lsToken, lsUser, server>>
  /\ UNCHANGED sessionVars
  /\ UNCHANGED requestVars
  /\ UNCHANGED chatVars

\* The backend handles a request: lists, stores a new record under the next
\* id, or removes a record.
BackendServes ==
  /\ \E i \in 1..Len(reqs) :
       /\ reqs[i].resp = NoOutcome
       /\ CASE reqs[i].kind = "get" ->
                 /\ reqs' = [reqs EXCEPT ![i].resp = Http(200, ListBody(server.list))]
                 /\ UNCHANGED server
            [] reqs[i].kind = "create" ->
                 /\ reqs' = [reqs EXCEPT ![i].resp =
                                Http(200, RecordBody(IdOf(server.created + 1)))]
                 /\ server' = [list |-> Append(server.list, IdOf(server.created + 1)),
                               created |-> server.created + 1]
            [] reqs[i].kind = "delete" ->
                 /\ reqs' = [reqs EXCEPT ![i].resp = Http(200, BodyOkNoData)]
                 /\ server' = [server EXCEPT !.list =
                                 SelectSeq(@, LAMBDA id : id # reqs[i].arg)]
  /\ UNCHANGED <<api, lsToken, lsUser, pacs, pacsLast>>
  /\ UNCHANGED sessionVars
  /\ UNCHANGED requestVars
  /\ UNCHANGED chatVars

\* The request fails instead: no connection, a proxy's error page, or a
\* rejected token.
BackendFails ==
  /\ \E i \in 1..Len(reqs) :
       /\ reqs[i].resp = NoOutcome
       /\ \E outcome \in {NetErr, Http(502, BodyHtml), Http(401, BodyErrMsg)} :
            reqs' = [reqs EXCEPT ![i].resp = outcome]
  /\ UNCHANGED <<api, lsToken, lsUser, pacs, server, pacsLast>>
  /\ UNCHANGED sessionVars
  /\ UNCHANGED requestVars
  /\ UNCHANGED chatVars

\* loadConfigurations, handleSubmit or handleDelete running on from its
\* await with what pacsAPI returned.
PacsContinue(i, out) ==
  /\ lsToken' = TokenAfter(out.fx, lsToken)
  /\ lsUser' = UserAfter(out.fx, lsUser)
  /\ CASE reqs[i].kind = "get" ->
            /\ pacs' = [pacs EXCEPT
                 !.configurations = ConfigurationsAfterLoad(out.ret.value, @),
                 !.toast = IF Truthy(out.ret.value) THEN @ ELSE "Error",
                 !.isLoading = FALSE]
            /\ reqs' = Without(reqs, i)
            /\ pacsLast' = [ev |-> "loaded", ok |-> Truthy(out.ret.value),
                            cause |-> reqs[i].cause, n |-> reqs[i].n]
       [] reqs[i].kind = "create" ->
            IF Truthy(out.ret.value)
              THEN /\ pacs' = [Loading(pacs) EXCEPT !.isSubmitting = FALSE,
                                  !.toast = "Configuration Added"]
                   /\ reqs' = Append(Without(reqs, i),
                        PacsRequest("get", UNDEF, IdOfText(out.ret.value), pacs.seq + 1))
                   /\ pacsLast' = [NoPacsLast EXCEPT !.ev = "created", !.ok = TRUE,
                                     !.cause = IdOfText(out.ret.value)]
              ELSE /\ pacs' = [pacs EXCEPT !.isSubmitting = FALSE, !.toast = "Error"]
                   /\ reqs' = Without(reqs, i)
                   /\ pacsLast' = [NoPacsLast EXCEPT !.ev = "created"]
       [] reqs[i].kind = "delete" ->
            IF out.ret.success = "true"
              THEN /\ pacs' = [Loading(pacs) EXCEPT !.toast = "Configuration Deleted"]
                   /\ reqs' = Append(Without(reqs, i),
                        PacsRequest("get", UNDEF, UNDEF, pacs.seq + 1))
                   /\ pacsLast' = [NoPacsLast EXCEPT !.ev = "deleted", !.ok = TRUE]
              ELSE /\ pacs' = [pacs EXCEPT !.toast = "Error"]
                   /\ reqs' = Without(reqs, i)
                   /\ pacsLast' = [NoPacsLast EXCEPT !.ev = "deleted"]
  /\ UNCHANGED <<api, server>>
  /\ UNCHANGED sessionVars
  /\ UNCHANGED requestVars
  /\ UNCHANGED chatVars

PacsReturns ==
  \E i \in 1..Len(reqs) :
    /\ reqs[i].resp # NoOutcome
    /\ PacsContinue(i, Handle(api, OperationOf(reqs[i].kind), reqs[i].resp))

PacsNext ==
  \/ PacsMount
  \/ PacsSubmit
  \/ PacsDelete
  \/ BackendServes
  \/ BackendFails
  \/ PacsReturns

PacsSpec == PacsInit /\ [][PacsNext]_vars

\* ------------------------------------------------------------------------
\* The Chat screen.  Revision part_003 loads the history from the backend
\* and keeps one message list; revision pages/Chat.tsx keeps conversations
\* in localStorage.  The page mounts as one of the two.
\* ------------------------------------------------------------------------
\* How many messages the user gets to send.
MaxSends == 2

\* How many conversations get created.
MaxConversations == 2

\* (mutant of SendRefused: a send is not held back while one is outstanding)
SendRefusedBlankOnly(input, loading) == input = ""

\* if (!inputMessage.trim() || isLoading) return;
SendRefused(input, loading) == input = "" \/ loading

\* A ChatMessage: crypto.randomUUID(), the role, Date.now().
Message(n, role, t) == [id |-> "m" \o Digits[n], role |-> role, ts |-> t]

\* The ChatMessage array of a history response.
MessagesOfText(text) ==
  IF text = HistoryJson THEN <<[id |-> "h1", role |-> "assistant", ts |-> 1]>>
  ELSE <<>>

\* A ChatConversation, as far as the screen's logic reads it: its id and
\* its messages, each message by its role.
Conversation(id, messages) == [id |-> id, messages |-> messages]

\* JSON.stringify(conversations), the text the persist effect writes.
RECURSIVE JoinTexts(_)
JoinTexts(texts) ==
  IF texts = <<>> THEN ""
  ELSE IF Len(texts) = 1 THEN Head(texts)
       ELSE Head(texts) \o "," \o JoinTexts(Tail(texts))

ConversationText(c) ==
  "{\"id\":\"" \o c.id \o "\",\"messages\":["
    \o JoinTexts([k \in 1..Len(c.messages) |->
                    "{\"role\":\"" \o c.messages[k] \o "\"}"])
    \o "]}"

ConversationsText(l) ==
  "[" \o JoinTexts([k \in 1..Len(l) |-> ConversationText(l[k])]) \o "]"

\* What an earlier visit can have left in localStorage.
StoredLists ==
  {<<>>,
   <<Conversation("s1", <<"user", "assistant">>)>>,
   <<Conversation("s1", <<"user", "assistant">>), Conversation("s2", <<>>)>>}
StoredTexts == {NULLV} \cup {ConversationsText(l) : l \in StoredLists}

\* JSON.parse(stored)
ConversationsOfText(text) == CHOOSE l \in StoredLists : ConversationsText(l) = text

\* The persist effect: localStorage.setItem(CHATS_KEY, JSON.stringify(...))
Persist(scr) == [scr EXCEPT !.stored = ConversationsText(scr.conversations)]

\* prev.map(c => c.id === id ? {...c, messages: [...c.messages, m]} : c)
AppendTo(convs, id, role) ==
  [k \in 1..Len(convs) |->
     IF convs[k].id = id THEN [convs[k] EXCEPT !.messages = Append(@, role)]
     ELSE convs[k]]

ChatInit ==
  /\ api \in ApiVariants
  /\ ctx = "rollback"
  /\ lsToken = "tok0"
  /\ lsUser = UserAnnJson
  /\ ctxToken = "tok0"
  /\ ctxUser = UserAnnJson
  /\ isLoading = FALSE
  /\ boot = [pc |-> "done", hdr |-> UNDEF]
  /\ calls = <<>>
  /\ last = NoLast
  /\ domain = NoDomain
  /\ op = "none"
  /\ phase = "done"
  /\ timer = "none"
  /\ aborted = FALSE
  /\ response = NoOutcome
  /\ result = NoRet
  /\ PacsIdle
  /\ chat = ChatScreenInit
  /\ local \in {[LocalScreenInit EXCEPT !.stored = text] : text \in StoredTexts}
  /\ chatLast = NoChatLast

\* The mount effect of part_003: loadChats() up to its await.
ChatMount ==
  /\ ~chat.mounted /\ ~local.mounted
  /\ HasOperation(api, "getAllChats")
  /\ chat' = [chat EXCEPT !.mounted = TRUE, !.isLoadingChats = TRUE, !.load = "pending"]
  /\ chatLast' = [NoChatLast EXCEPT !.ev = "mount"]
  /\ UNCHANGED <<api, lsToken, lsUser, local>>
  /\ UNCHANGED sessionVars
  /\ UNCHANGED requestVars
  /\ UNCHANGED pacsVars

ChatLoadOutcomes ==
  {Http(200, BodyChats), Http(200, BodyChatsOld), Http(401, BodyErrMsg), NetErr}

\* loadChats after await chatAPI.getAllChats()
ChatLoaded(out) ==
  /\ lsToken' = TokenAfter(out.fx, lsToken)
  /\ lsUser' = UserAfter(out.fx, lsUser)
  /\ chat' = [chat EXCEPT
       !.messages = IF Truthy(out.ret.value) THEN MessagesOfText(out.ret.value)
                    ELSE <<>>,
       !.toast = IF ~Truthy(out.ret.value) /\ Truthy(out.ret.error) THEN "Error" ELSE @,
       !.isLoadingChats = FALSE,
       !.load = "done"]
  /\ chatLast' = [NoChatLast EXCEPT !.ev = "loaded"]
  /\ UNCHANGED <<api, local>>
  /\ UNCHANGED sessionVars
  /\ UNCHANGED requestVars
  /\ UNCHANGED pacsVars

ChatLoadReturns ==
  /\ chat.load = "pending"
  /\ \E outcome \in ChatLoadOutcomes : ChatLoaded(Handle(api, "getAllChats", outcome))

\* handleSendMessage of part_003 up to its await.
ChatSend ==
  /\ chat.mounted
  /\ chat.sends < MaxSends
  /\ \E input \in {"", "hi"} : \E t \in {chat.now, chat.now + 1} :
       IF SendRefused(input, chat.isLoading)
         THEN /\ UNCHANGED chat
              /\ chatLast' = [NoChatLast EXCEPT !.ev = "send", !.refused = TRUE]
         ELSE /\ chat' = [chat EXCEPT
                   !.messages = Append(@, Message(chat.made + 1, "user", t)),
                   !.isLoading = TRUE, !.inflight = @ + 1, !.sends = @ + 1,
                   !.made = @ + 1, !.now = t]
              /\ chatLast' = [NoChatLast EXCEPT !.ev = "send"]
  /\ UNCHANGED <<api, lsToken, lsUser, local>>
  /\ UNCHANGED sessionVars
  /\ UNCHANGED requestVars
  /\ UNCHANGED pacsVars

ChatSendOutcomes ==
  {Http(200, BodyLlm), Http(200, BodyReply), Http(401, BodyErrMsg),
   Http(502, BodyHtml), NetErr}

\* handleSendMessage of part_003 after await chatAPI.sendMessage()
ChatReplied(out, t) ==
  /\ lsToken' = TokenAfter(out.fx, lsToken)
  /\ lsUser' = UserAfter(out.fx, lsUser)
  /\ chat' = IF Truthy(out.ret.value)
       THEN [chat EXCEPT
               !.messages = Append(@, Message(chat.made + 1, "assistant", t)),
               !.made = @ + 1, !.now = t,
               !.isLoading = FALSE, !.inflight = @ - 1]
       ELSE [chat EXCEPT !.toast = "Error", !.isLoading = FALSE, !.inflight = @ - 1]
  /\ chatLast' = [NoChatLast EXCEPT !.ev = "replied"]
  /\ UNCHANGED <<api, local>>
  /\ UNCHANGED sessionVars
  /\ UNCHANGED requestVars
  /\ UNCHANGED pacsVars

ChatSendReturns ==
  /\ chat.inflight > 0
  /\ \E outcome \in ChatSendOutcomes : \E t \in {chat.now, chat.now + 1} :
       ChatReplied(Handle(api, "sendMessage", outcome), t)

\* The effects of the first render of pages/Chat.tsx.  The mount effect reads
\* localStorage and, when something is stored, queues setConversations(parsed)
\* and setActiveConversationId(parsed[0].id); the persist effect of the same
\* pass still sees conversations = [] and writes "[]" over what was stored.
LocalMount ==
  /\ ~local.mounted /\ ~chat.mounted
  /\ local' = [Persist([local EXCEPT !.mounted = TRUE]) EXCEPT
       !.pending = Truthy(local.stored),
       !.queued = IF Truthy(local.stored) THEN ConversationsOfText(local.stored)
                  ELSE <<>>]
  /\ chatLast' = [NoChatLast EXCEPT !.ev = "mount"]
  /\ UNCHANGED <<api, lsToken, lsUser, chat>>
  /\ UNCHANGED sessionVars
  /\ UNCHANGED requestVars
  /\ UNCHANGED pacsVars

\* The render that the queued updates of the mount effect schedule: the
\* parsed list and its first id become the component state, and the persist
\* effect, whose dependency changed, writes the list back to localStorage.
LocalRender ==
  /\ local.mounted /\ local.pending
  /\ local' = Persist([local EXCEPT
       !.conversations = local.queued,
       !.active = IF local.queued # <<>> THEN local.queued[1].id ELSE @,
       !.pending = FALSE,
       !.queued = <<>>])
  /\ chatLast' = [NoChatLast EXCEPT !.ev = "render"]
  /\ UNCHANGED <<api, lsToken, lsUser, chat>>
  /\ UNCHANGED sessionVars
  /\ UNCHANGED requestVars
  /\ UNCHANGED pacsVars

\* The handlers of the screen run on a rendered state: React runs the render
\* scheduled by the mount effect before it handles the user's next input.
LocalReady == local.mounted /\ ~local.pending

\* createNewConversation
LocalCreate ==
  /\ LocalReady
  /\ local.made < MaxConversations
  /\ local' = Persist([local EXCEPT
       !.conversations = <<Conversation("c" \o Digits[local.made + 1], <<>>)>> \o @,
       !.active = "c" \o Digits[local.made + 1],
       !.made = @ + 1])
  /\ chatLast' = [NoChatLast EXCEPT !.ev = "create"]
  /\ UNCHANGED <<api, lsToken, lsUser, chat>>
  /\ UNCHANGED sessionVars
  /\ UNCHANGED requestVars
  /\ UNCHANGED pacsVars

\* onClick of a conversation: setActiveConversationId(conversation.id)
LocalSelect ==
  /\ LocalReady
  /\ \E k \in 1..Len(local.conversations) :
       local' = [local EXCEPT !.active = local.conversations[k].id]
  /\ chatLast' = [NoChatLast EXCEPT !.ev = "select"]
  /\ UNCHANGED <<api, lsToken, lsUser, chat>>
  /\ UNCHANGED sessionVars
  /\ UNCHANGED requestVars
  /\ UNCHANGED pacsVars

\* (mutant of ActiveAfterDelete: the active id is kept)
ActiveKept(active, id, remaining) == active

\* deleteConversation: the next active conversation
ActiveAfterDelete(active, id, remaining) ==
  IF active = id
    THEN (IF remaining # <<>> THEN remaining[1].id ELSE NULLV)
    ELSE active

\* deleteConversation(id)
LocalDelete ==
  /\ LocalReady
  /\ \E k \in 1..Len(local.conversations) :
       local' = Persist([local EXCEPT
         !.conversations = SelectSeq(@, LAMBDA c : c.id # local.conversations[k].id),
         !.active = ActiveAfterDelete(@, local.conversations[k].id,
                      SelectSeq(local.conversations,
                                LAMBDA c : c.id # local.conversations[k].id)),
         !.toast = "Conversation deleted"])
  /\ chatLast' = [NoChatLast EXCEPT !.ev = "delete"]
  /\ UNCHANGED <<api, lsToken, lsUser, chat>>
  /\ UNCHANGED sessionVars
  /\ UNCHANGED requestVars
  /\ UNCHANGED pacsVars

\* handleSendMessage of pages/Chat.tsx up to its await: a conversation is
\* created when none is active, the user message goes to conversationId.
LocalSend ==
  /\ LocalReady
  /\ local.sends < MaxSends
  /\ local.active = NULLV => local.made < MaxConversations
  /\ \E input \in {"", "hi"} :
       IF SendRefused(input, local.isLoading)
         THEN /\ UNCHANGED local
              /\ chatLast' = [NoChatLast EXCEPT !.ev = "send", !.refused = TRUE]
         ELSE /\ local' = Persist(
                   IF local.active = NULLV
                     THEN [local EXCEPT
                             !.conversations =
                               AppendTo(<<Conversation("c" \o Digits[local.made + 1], <<>>)>> \o @,
                                        "c" \o Digits[local.made + 1], "user"),
                             !.active = "c" \o Digits[local.made + 1],
                             !.target = "c" \o Digits[local.made + 1],
                             !.made = @ + 1,
                             !.isLoading = TRUE, !.inflight = @ + 1, !.sends = @ + 1]
                     ELSE [local EXCEPT
                             !.conversations = AppendTo(@, local.active, "user"),
                             !.target = local.active,
                             !.isLoading = TRUE, !.inflight = @ + 1, !.sends = @ + 1])
              /\ chatLast' = [NoChatLast EXCEPT !.ev = "send"]
  /\ UNCHANGED <<api, lsToken, lsUser, chat>>
  /\ UNCHANGED sessionVars
  /\ UNCHANGED requestVars
  /\ UNCHANGED pacsVars

\* (mutant of ReplyTarget: the reply goes to the conversation now active)
ReplyToActive(conversationId, active) == active

\* c.id === conversationId: the id handleSendMessage held over its await
ReplyTarget(conversationId, active) == conversationId

\* handleSendMessage of pages/Chat.tsx after await chatAPI.sendMessage()
LocalReplied(out) ==
  /\ lsToken' = TokenAfter(out.fx, lsToken)
  /\ lsUser' = UserAfter(out.fx, lsUser)
  /\ local' = Persist(
       IF out.ret.threw
         THEN [local EXCEPT !.toast = "Error", !.isLoading = FALSE,
                 !.inflight = @ - 1, !.target = UNDEF]
         ELSE [local EXCEPT
                 !.conversations =
                   AppendTo(@, ReplyTarget(local.target, local.active), "assistant"),
                 !.isLoading = FALSE, !.inflight = @ - 1, !.target = UNDEF])
  /\ chatLast' = [NoChatLast EXCEPT !.ev = "replied"]
  /\ UNCHANGED <<api, chat>>
  /\ UNCHANGED sessionVars
  /\ UNCHANGED requestVars
  /\ UNCHANGED pacsVars

LocalSendReturns ==
  /\ local.inflight > 0
  /\ \E outcome \in ChatSendOutcomes :
       LocalReplied(Handle(api, "sendMessage", outcome))

ChatNext ==
  \/ ChatMount
  \/ ChatLoadReturns
  \/ ChatSend
  \/ ChatSendReturns
  \/ LocalMount
  \/ LocalRender
  \/ LocalCreate
  \/ LocalSelect
  \/ LocalDelete
  \/ LocalSend
  \/ LocalSendReturns

ChatSpec == ChatInit /\ [][ChatNext]_vars

\* ------------------------------------------------------------------------
\* Properties of the Session Context (checked under Spec).
\* ------------------------------------------------------------------------

\* C1: when a login call obtained a token and its me() call then failed, the
\* state in which login returns has no stored token, no stored user, and the
\* context holds token = null and user = null.
C1_LoginLeavesNoPartialSession ==
  (last.op = "login" /\ last.tokOk /\ ~last.meOk) =>
    /\ lsToken = NULLV
    /\ lsUser = NULLV
    /\ ctxToken = NULLV
    /\ ctxUser = NULLV

\* C2: login returns success: true only if the token request returned a
\* token and me() returned a user; otherwise it returns success: false with
\* an error string.
C2_LoginSuccessNeedsTokenAndUser ==
  last.op = "login" =>
    /\ last.success <=> (last.tokOk /\ last.meOk)
    /\ ~last.success => Truthy(last.error)

\* C4: right after logout, getToken() and getCurrentUser() return null
\* (without throwing) and the context holds token = null and user = null.
C4_LogoutClearsSession ==
  last.op = "logout" =>
    /\ getToken(lsToken) = NULLV
    /\ ~getCurrentUser(lsUser).threw
    /\ getCurrentUser(lsUser).v = NULLV
    /\ ctxToken = NULLV
    /\ ctxUser = NULLV

\* C4 witness: logout has run on an established session.
C4_Witness == last.op = "logout" /\ last.hadSession

\* C5: isAuthenticated is true only when the context token and the context
\* user are both non-null.
C5_AuthenticatedNeedsTokenAndUser ==
  isAuthenticated(ctxUser, ctxToken) => (ctxToken # NULLV /\ ctxUser # NULLV)

\* C5 witness: an authenticated context.
C5_Witness == isAuthenticated(ctxUser, ctxToken) /\ last.op = "login"

\* ------------------------------------------------------------------------
\* Properties of one API operation (checked under RequestSpec).
\* ------------------------------------------------------------------------

\* C3: when me() receives an HTTP 401 or 403 response it removes the stored
\* token and the stored user and returns an error and no user.
C3_MeClearsSessionOn401 ==
  (op = "me" /\ phase = "done" /\ response.kind = "http"
     /\ response.status \in {401, 403}) =>
    /\ lsToken = NULLV
    /\ lsUser = NULLV
    /\ Truthy(result.error)
    /\ result.user = UNDEF

\* C6: when the timeout fires the pending call is aborted and the operation
\* returns the timeout message, which is not the network-failure message;
\* once the call has settled the timer is no longer armed.
C6_TimeoutAbortsAndIsDistinct ==
  /\ timer = "fired" => (aborted /\ response.kind = "abort")
  /\ (phase = "done" /\ response.kind = "abort") =>
       (result.error = TimeoutMessage /\ result.error # NetworkMessage)
  /\ (phase = "done" /\ HasTimeout(api) /\ response.kind \in {"neterr", "bodyerr"}) =>
       (result.error = NetworkMessage /\ result.error # TimeoutMessage)
  /\ phase # "fetching" => timer # "armed"

\* C6 witness: an operation that returned because its timer fired.
C6_Witness == phase = "done" /\ timer = "fired" /\ result.error = TimeoutMessage

\* C7: a response whose body is non-empty and no JSON, whatever its status,
\* becomes an error envelope with code NON_JSON_RESPONSE, and the operation
\* returns a non-empty error message that is not the network-error message,
\* without throwing.
C7_NonJsonBodyIsNotANetworkError ==
  (phase = "done" /\ response.kind = "http" /\ response.body \in NonJsonBodies) =>
    /\ safeReadJson(response.body).status = "error"
    /\ safeReadJson(response.body).code = "NON_JSON_RESPONSE"
    /\ ~result.threw
    /\ Truthy(result.error)
    /\ result.error \notin {NetworkMessage, "Network error", TimeoutMessage}

\* C8: a validation failure {detail: [{msg: m1}, ..., {msg: mn}]} yields the
\* msg values joined by ", " in their order, for every operation.
C8_ValidationMessagesJoined ==
  (phase = "done" /\ response.kind = "http" /\ response.status = 422
     /\ response.body \in {BodyValidation, BodyValidationOne}) =>
    result.error = Join(JsonParse(response.body).v.detail.msgs)

\* C9: the error of a failed operation of api.ts is (a) the joined msg
\* fields of a validation-error array if present, else (b) the envelope's
\* message, else (c) the fixed default of that operation.
C9_ErrorMessageOrder ==
  (api = "executor" /\ phase = "done" /\ response.kind = "http"
     /\ response.body \in JsonBodies /\ Truthy(result.error)) =>
    LET p == JsonParse(response.body).v
        validation ==
          IF p.details.t = "arr" THEN Join(FilterBoolean(p.details.msgs))
          ELSE IF p.detail.t = "arr" THEN Join(FilterBoolean(p.detail.msgs))
          ELSE UNDEF
    IN  result.error = Or(Or(validation, p.message), DefaultMessage(op))

\* C10: every operation returns a value and throws nothing, whatever the
\* backend did: transport failure, timeout, any status, any body.
C10_OperationsNeverThrow == phase = "done" => ~result.threw

\* C10 witness: an operation returned an error for a 502 whose body is HTML.
C10_Witness ==
  /\ phase = "done"
  /\ response.kind = "http"
  /\ response.body = BodyHtml
  /\ response.status = 502
  /\ Truthy(result.error)

\* C11: for every operation and every response envelope, status "success"
\* with non-empty data (on a 2xx response) gives the mapped success result
\* and no error; status "error" gives an error string and no success result.
C11_EnvelopeMapsToResult ==
  (phase = "done" /\ response.kind = "http" /\ response.body \in JsonBodies) =>
    LET p == JsonParse(response.body).v
        mapped == Truthy(result.token) \/ Truthy(result.user)
                    \/ Truthy(result.value) \/ result.success = "true"
    IN  /\ (ResponseOk(response.status) /\ p.status = "success"
               /\ DataTruthy(p.data)) =>
              (mapped /\ result.error = UNDEF)
        /\ p.status = "error" => (Truthy(result.error) /\ ~mapped)

\* C12: when a Chat or PACS Configuration operation receives an HTTP 401 or
\* 403 response, the stored token and the stored user are removed and the
\* operation returns an error result.
C12_DomainOperationLogsOutOn401 ==
  (phase = "done" /\ op \notin {"login", "signup", "me"}
     /\ response.kind = "http" /\ response.status \in {401, 403}) =>
    /\ lsToken = NULLV
    /\ lsUser = NULLV
    /\ Truthy(result.error)

\* C13: every call into the Request Executor eventually returns, provided
\* the timeout timer eventually fires: whether the backend withholds the
\* response headers or stalls while sending the body.
C13_RequestEventuallyReturns ==
  (HasTimeout(api) /\ phase \in {"fetching", "reading"}) ~> (phase = "done")

\* C23: on a successful login response the bearer token is extracted and
\* stored whether the data is a bare string, an object with access_token or
\* an object with token (access_token first); when none of these yields a
\* non-empty token, nothing is stored and login returns an error.
C23_LoginTokenShapes ==
  (/\ phase = "done" /\ op = "login" /\ response.kind = "http"
   /\ ResponseOk(response.status) /\ response.body \in JsonBodies
   /\ JsonParse(response.body).v.status = "success") =>
    LET d == JsonParse(response.body).v.data
        t == IF d.t = "str" THEN d.s
             ELSE IF Truthy(d.access_token) THEN d.access_token
             ELSE d.token
    IN  IF Truthy(t)
          THEN result.token = t /\ lsToken = t
          ELSE /\ ~Truthy(result.token) /\ Truthy(result.error)
               /\ lsToken \in {NULLV, "tok0"}

\* C15: the Session Context's signup calls the signup endpoint; when the
\* endpoint accepts, login is invoked (and its result returned); when it
\* fails, login is not invoked, signup returns success: false with an error
\* and store and context are unchanged.  The signup request itself stores
\* no token.
C15_SignupThenLogin ==
  [][\A c \in Calls :
       (calls[c].pc = "signup" /\ calls'[c].pc # "signup") =>
         /\ lsToken' = lsToken
         /\ IF last'.accepted
              THEN calls'[c].pc = "login"
              ELSE /\ calls'[c].pc = "idle"
                   /\ last'.op = "signup"
                   /\ ~last'.success
                   /\ Truthy(last'.error)
                   /\ UNCHANGED <<lsUser, ctxToken, ctxUser>>]_vars

\* C16: during start, while the me() re-validation of a persisted session is
\* pending, isLoading is true; it becomes false only once the validation
\* has resolved.
C16_LoadingWhileValidating == boot.pc = "validating" => isLoading

\* C17: at start, whenever a token is in the Session Store, the context marks
\* the session from the persisted token and issues me() to re-validate it;
\* a stored token is never left cached without re-validation.
C17_StoredTokenIsRevalidated ==
  (last.op = "mount" /\ Truthy(lsToken)) =>
    (boot.pc = "validating" /\ ctxToken = lsToken)

\* C18: when the me() validation at start fails, the context ends with no
\* token and no user, and the Session Store holds neither.
C18_FailedValidationClearsSession ==
  (last.op = "validated" /\ ~last.meOk) =>
    /\ ctxToken = NULLV /\ ctxUser = NULLV
    /\ lsToken = NULLV /\ lsUser = NULLV

C18_Witness ==
  /\ last.op = "validated" /\ ~last.meOk
  /\ boot.pc = "done" /\ ctxToken = NULLV /\ lsToken = NULLV

\* C19: within one login call, me() is issued only after the token request
\* returned a token and that token was written to the Session Store; the
\* call's two requests are never in flight together, and me() is never
\* issued when no token came back.
C19_MeAfterTokenStored ==
  [][\A c \in Calls :
       (calls'[c].pc = "me" /\ calls[c].pc # "me") =>
         /\ calls[c].pc = "login"
         /\ Truthy(calls'[c].tok)
         /\ lsToken' = calls'[c].tok
         /\ calls'[c].hdr = calls'[c].tok]_vars

C19_Witness ==
  \E c \in Calls : /\ calls[c].pc = "me" /\ calls[c].tok = "tokB"
                    /\ calls[c].hdr = "tokB" /\ last.op = "token"

\* C20: whenever no auth operation is in progress, context and Session Store
\* agree: the context has a token exactly when one is stored and a user
\* exactly when one is stored, also after a domain service cleared the
\* store on 401/403.
\* Checked in the case the claim names: a domain operation has just returned
\* and left the store empty.
C20_ContextAgreesWithStore ==
  (/\ boot.pc = "done" /\ \A c \in Calls : calls[c].pc = "idle"
   /\ last.op = "domain" /\ lsToken = NULLV /\ lsUser = NULLV) =>
    /\ Truthy(ctxToken) <=> Truthy(lsToken)
    /\ Truthy(ctxUser) <=> Truthy(lsUser)

\* C24: the result of the startup me() validation never clears or overwrites
\* a session established by a login that completed while the validation was
\* pending: stored token, stored user, context token and context user stay
\* those of that login.
C24_ValidationKeepsLaterLogin ==
  [][(/\ boot.pc = "validating" /\ boot'.pc = "done"
      /\ last.op = "login" /\ last.success /\ last.meOk) =>
       UNCHANGED <<lsToken, lsUser, ctxToken, ctxUser>>]_vars

\* C25: once logout has run, the stored user and the context user remain
\* null when a me() call that was issued before the logout (at startup or
\* inside a login) completes after it.
C25_LogoutOutlivesPendingMe ==
  [][(/\ last.op = "logout"
      /\ \/ boot.pc = "validating" /\ boot'.pc = "done"
         \/ \E c \in Calls : calls[c].pc = "me" /\ calls'[c].pc = "idle") =>
       (lsUser' = NULLV /\ ctxUser' = NULLV)]_vars

\* C26: when the second of two overlapping login calls completes (the other
\* has just returned success), the session is consistent: the context token
\* equals the stored token, and context user and stored user are the profile
\* of that token's owner.
C26_OverlappingLoginsConsistent ==
  [][\A c \in Calls :
       (/\ calls[c].pc = "me" /\ calls'[c].pc = "idle"
        /\ \A d \in Calls \ {c} : calls[d].pc = "idle"
        /\ boot.pc = "done"
        /\ last.op = "login" /\ last.success /\ last.meOk) =>
         /\ Truthy(ctxToken') /\ ctxToken' = lsToken'
         /\ ctxUser' = (IF ctxToken' = "tokA" THEN UserAnnJson ELSE UserBobJson)
         /\ getCurrentUser(lsUser').v = ctxUser']_vars

\* C27: a login call that fails at the token step (error envelope, validation
\* error, network failure or timeout on the login endpoint: the answers on
\* which authAPI.login returns an error message) leaves the Session Store and
\* the Session Context as they were; an established session is not cleared.
C27_FailedTokenStepChangesNothing ==
  [][\A c \in Calls :
       (/\ calls[c].pc = "login" /\ calls'[c].pc = "idle"
        /\ last'.op = "login" /\ Truthy(last'.error)) =>
         UNCHANGED <<lsToken, lsUser, ctxToken, ctxUser>>]_vars

C27_Witness ==
  /\ last.op = "login" /\ ~last.tokOk /\ Truthy(last.error)
  /\ lsToken = "tokA" /\ ctxToken = "tokA"
  /\ lsUser = UserAnnJson /\ ctxUser = UserAnnJson

\* ------------------------------------------------------------------------
\* Properties of the PACS Configuration screen (checked under PacsSpec).
\* ------------------------------------------------------------------------

\* C14: with a backend that stores created records, the list that
\* getConfigurations returns after a successful createConfiguration, and
\* that the screen then displays, contains the created record under the id
\* the server assigned (as long as the record is still stored).
C14_CreatedRecordIsListed ==
  (pacsLast.ev = "loaded" /\ pacsLast.ok /\ pacsLast.cause # UNDEF
     /\ \E k \in 1..Len(server.list) : server.list[k] = pacsLast.cause) =>
    \E k \in 1..Len(IdsOfText(pacs.configurations)) :
      IdsOfText(pacs.configurations)[k] = pacsLast.cause

\* C14 witness: the reload after the second create displays both records.
C14_Witness ==
  /\ pacsLast.ev = "loaded"
  /\ pacsLast.ok
  /\ pacsLast.cause = IdOf(2)
  /\ IdsOfText(pacs.configurations) = <<IdOf(1), IdOf(2)>>

\* C28: when list reloads overlap, the reload that completes last leaves the
\* displayed list that of the most recently issued fetch (here: that fetch
\* has just returned successfully and an older one returns after it), and
\* isLoading is false.
C28_LatestFetchIsDisplayed ==
  [][\A i \in 1..Len(reqs) :
       (/\ reqs[i].kind = "get" /\ reqs[i].resp # NoOutcome
        /\ reqs' = Without(reqs, i)
        /\ \A j \in 1..Len(reqs') : reqs'[j].kind # "get"
        /\ pacsLast.ev = "loaded" /\ pacsLast.ok /\ pacsLast.n = pacs.latest) =>
         /\ ~pacs'.isLoading
         /\ pacs'.configurations = pacs.configurations]_vars

\* ------------------------------------------------------------------------
\* Properties of the Chat screen (checked under ChatSpec).
\* ------------------------------------------------------------------------

\* C21: under every interleaving of the history load and sends, the message
\* sequence only grows by appending at its end (nothing in it is removed,
\* replaced, reordered or changed) and is in non-decreasing timestamp order;
\* likewise the messages of every conversation that stays in the list.
C21_MessagesOnlyAppended ==
  [][/\ Len(chat'.messages) >= Len(chat.messages)
     /\ SubSeq(chat'.messages, 1, Len(chat.messages)) = chat.messages
     /\ \A k \in 1..(Len(chat'.messages) - 1) :
          chat'.messages[k].ts <= chat'.messages[k + 1].ts
     /\ \A i \in 1..Len(local.conversations) :
          \A j \in 1..Len(local'.conversations) :
            local.conversations[i].id = local'.conversations[j].id =>
              /\ Len(local'.conversations[j].messages)
                    >= Len(local.conversations[i].messages)
              /\ SubSeq(local'.conversations[j].messages, 1,
                        Len(local.conversations[i].messages))
                    = local.conversations[i].messages]_vars

\* C22: at most one chat send request is in flight; a send attempt made
\* while one is outstanding (isLoading true) issues no request and changes
\* no state; isLoading is false again when the outstanding send has
\* finished, with a response or with a failure.
C22_SingleSendInFlight ==
  [][/\ chat'.inflight <= 1 /\ local'.inflight <= 1
     /\ (chatLast'.ev = "send" /\ (chat.isLoading \/ local.isLoading)) =>
          (chat' = chat /\ local' = local /\ chatLast'.refused)
     /\ (chat.inflight = 1 /\ chat'.inflight = 0) => ~chat'.isLoading
     /\ (local.inflight = 1 /\ local'.inflight = 0) => ~local'.isLoading
     /\ chat'.isLoading <=> chat'.inflight = 1
     /\ local'.isLoading <=> local'.inflight = 1]_vars

C22_Witness ==
  /\ chatLast.ev = "send" /\ chatLast.refused
  /\ local.isLoading /\ local.inflight = 1 /\ local.sends = 1

\* C29: in the local-storage chat screen an assistant reply is appended only
\* to the conversation its prompt was sent from, whatever conversation is
\* active when it arrives; when that conversation was deleted meanwhile, no
\* conversation changes and the deleted one does not reappear.
C29_ReplyGoesToItsConversation ==
  [][(local.inflight = 1 /\ local'.inflight = 0) =>
       /\ Len(local'.conversations) = Len(local.conversations)
       /\ \A k \in 1..Len(local.conversations) :
            IF local.conversations[k].id = local.target
              THEN local'.conversations[k] \in
                     {local.conversations[k],
                      [local.conversations[k] EXCEPT !.messages = Append(@, "assistant")]}
              ELSE local'.conversations[k] = local.conversations[k]]_vars

C29_Witness ==
  /\ chatLast.ev = "replied"
  /\ local.active # "c1"
  /\ \E k \in 1..Len(local.conversations) :
       local.conversations[k] = Conversation("c1", <<"user", "assistant">>)

\* C30: in the local-storage chat screen, after any sequence of load, create,
\* select, delete and send, activeConversationId is null exactly when the
\* conversation list is empty and otherwise is the id of a conversation in
\* the list.
C30_ActiveConversationExists ==
  local.mounted =>
    /\ local.active = NULLV <=> local.conversations = <<>>
    /\ local.active # NULLV =>
         \E k \in 1..Len(local.conversations) :
           local.conversations[k].id = local.active

C30_Witness ==
  /\ chatLast.ev = "delete" /\ local.active # NULLV
  /\ Len(local.conversations) = 2

============================================================================
